---- MODULE Spec2Model ----
(***************************************************************************)
(* Deployment lifecycle controller of the neo4j-deploy tool                *)
(* (src/deployments): the state store kept in active-deployments.json,     *)
(* cleanup_deployment with its managed-resource-group safety gate,         *)
(* submit_deployment with its spurious-error re-verification, and the      *)
(* monitor_deployments poll loop.                                          *)
(***************************************************************************)
EXTENDS Integers, Sequences, FiniteSets, TLC

\* ------------------------------------------------------------------ bounds
MaxIds == 2            \* number of deployment records
MaxTimeout == 2        \* largest configured timeout_seconds tried
MaxPoll == 2           \* largest configured poll_interval tried
MaxCleanupCalls == 2   \* cleanup_deployment calls per behaviour

Ids == 1..MaxIds

\* The clock saturates one second after every deadline has passed: from then
\* on every elapsed > timeout comparison is true, so later readings add nothing.
MonitorStart == MaxIds
MaxNow == MonitorStart + MaxTimeout + 1

Min(a, b) == IF a < b THEN a ELSE b

EmptyMap == [x \in {} |-> 0]

\* list(d.keys()) of a dict filled in ascending id order
RECURSIVE Keys(_)
Keys(S) ==
    IF S = {} THEN <<>>
    ELSE LET m == CHOOSE x \in S : \A y \in S : x <= y
         IN  <<m>> \o Keys(S \ {m})

\* final_statuses[deployment_id] = status
DropEntry(f, k, v) == f
Put(f, k, v) == [x \in DOMAIN f \cup {k} |-> IF x = k THEN v ELSE f[x]]

\* ------------------------------------------------------------- data model
Status == {"pending", "deploying", "succeeded", "failed", "deleted"}

\* Provisioning states az can report; "None" is get_deployment_status
\* returning None (non-zero exit, empty output, or an exception).
RemoteStatuses == {"Running", "Succeeded", "Failed", "Canceled", "None"}

\* Resource group names are generated per scenario and timestamp: one per record.
ResourceGroupName(id) == id
RGs == {ResourceGroupName(id) : id \in Ids}

\* created_at: records are constructed one after another by the deploy loop,
\* record i at second i-1; monitoring begins at MonitorStart.
CreatedAt(id) == id - 1

\* class CleanupMode(str, Enum): member names and their values
CleanupMode == {"IMMEDIATE", "ON_SUCCESS", "MANUAL", "SCHEDULED"}

CleanupModeValue(m) ==
    CASE m = "IMMEDIATE" -> "immediate"
      [] m = "ON_SUCCESS" -> "on-success"
      [] m = "MANUAL" -> "manual"
      [] m = "SCHEDULED" -> "scheduled"

\* CleanupMode(value): the member with that value
CleanupModeOf(v) == CHOOSE m \in CleanupMode : CleanupModeValue(m) = v

default_cleanup_mode == "ON_SUCCESS"

\* Optional[datetime] in memory: <<>> is None, <<t>> the instant t.
None == <<>>

\* A record as deploy constructs it: expires_at is left at its default, and
\* the class has no test_status field.
DeploymentState(id, st) ==
    [deployment_id |-> id, resource_group_name |-> ResourceGroupName(id),
     created_at |-> CreatedAt(id), expires_at |-> None,
     cleanup_mode |-> default_cleanup_mode, status |-> st]

NoState == [deployment_id |-> 0]

NoPoll == [deployment_id |-> 0, status |-> "None"]

VARIABLES
    state_file,      \* active-deployments.json: [data: Seq(record), ok: readable]
    now,             \* wall clock, whole seconds
    \* cleanup_deployment
    cleanup_calls, destroy_log, last_cleanup,
    \* history: the latest direct store operation and policy decision
    last_op, decision,
    \* cleanup --older-than: the command's position, flags and pending list
    cleanup_cmd,
    \* deploy loop and submit_deployment
    dpc, cur, skip_validation, deployment_states, submit_ret,
    validate_calls, create_calls, verify_calls, create_outcome, verify_outcome,
    \* deploy: cleanup mode of the run, resource group results, post-processing
    cleanup, rg_created, pp, succeeded_count, failed_count, consulted,
    exit_code,
    \* monitor_deployments
    mpc, live, timeout_seconds, poll_interval, input, start_times, active,
    final_statuses, queue, current_time, ticks, sleeps, polls, dash,
    polled_in_tick, resolved_tick,
    tick_start,      \* history: the clock when the current tick began
    last_poll,       \* history: the latest answer the poll loop received
    status_at_call   \* history: persisted statuses when monitoring was entered

storeVars == <<state_file>>
opVars == <<last_op, decision>>
cleanupVars == <<cleanup_calls, destroy_log, last_cleanup, cleanup_cmd, opVars>>
postVars == <<cleanup, rg_created, pp, succeeded_count, failed_count, consulted,
              exit_code>>
deployVars == <<dpc, cur, skip_validation, deployment_states, submit_ret,
                validate_calls, create_calls, verify_calls, create_outcome,
                verify_outcome, postVars>>
monitorVars == <<mpc, live, timeout_seconds, poll_interval, input, start_times,
                 active, final_statuses, queue, current_time, tick_start, ticks, sleeps,
                 polls, dash, polled_in_tick, resolved_tick, last_poll,
                 status_at_call>>
vars == <<state_file, now, cleanupVars, deployVars, monitorVars>>

\* ------------------------------------------------------------ state store
\* load_all_deployment_states: every read/parse error is swallowed and
\* reported as an empty list.
\* s.model_dump(mode="json"): datetimes become ISO strings (None becomes
\* null), the enum member becomes its value.
IsoFormat(t) ==
    IF t = None THEN [null |-> TRUE, iso |-> 0] ELSE [null |-> FALSE, iso |-> t[1]]

model_dump(s) ==
    [deployment_id |-> s.deployment_id,
     resource_group_name |-> s.resource_group_name,
     created_at |-> IsoFormat(<<s.created_at>>),
     expires_at |-> IsoFormat(s.expires_at),
     cleanup_mode |-> CleanupModeValue(s.cleanup_mode),
     status |-> s.status]

\* DeploymentState(**d): pydantic parses the strings back.
ParseDatetime(j) == IF j.null THEN None ELSE <<j.iso>>

ParseState(d) ==
    [deployment_id |-> d.deployment_id,
     resource_group_name |-> d.resource_group_name,
     created_at |-> ParseDatetime(d.created_at)[1],
     expires_at |-> ParseDatetime(d.expires_at),
     cleanup_mode |-> CleanupModeOf(d.cleanup_mode),
     status |-> d.status]

RECURSIVE DumpAll(_)
DumpAll(states) ==
    IF states = <<>> THEN <<>>
    ELSE <<model_dump(Head(states))>> \o DumpAll(Tail(states))

RECURSIVE ParseAll(_)
ParseAll(data) ==
    IF data = <<>> THEN <<>>
    ELSE <<ParseState(Head(data))>> \o ParseAll(Tail(data))

load_all_deployment_states(sf) == IF sf.ok THEN ParseAll(sf.data) ELSE <<>>

\* save_json: open(path, "w") and dump the whole collection.
save_json(data) == [data |-> data, ok |-> TRUE]

\* What is left on disk when the process stops between the truncating open
\* and the end of json.dump: a prefix of the document, which does not parse.
PartialWrite(sf) == [data |-> <<>>, ok |-> FALSE]

\* states.append(state) without the filter that drops the old copy
AppendOnly(sf, state) ==
    save_json(DumpAll(Append(load_all_deployment_states(sf), state)))
ReplaceAll(sf, state) == save_json(DumpAll(<<state>>))
save_deployment_state(sf, state) ==
    LET states == load_all_deployment_states(sf)
        others == SelectSeq(states,
                     LAMBDA s : s.deployment_id # state.deployment_id)
    IN  save_json(DumpAll(Append(others, state)))

get_deployment_state(sf, id) ==
    LET states == load_all_deployment_states(sf)
        hits == SelectSeq(states, LAMBDA s : s.deployment_id = id)
    IN  IF hits = <<>> THEN NoState ELSE Head(hits)

\* state.status = status, and the expiry reset as well
UpdateAndClearExpiry(sf, id, status) ==
    LET state == get_deployment_state(sf, id)
    IN  IF state # NoState
        THEN save_deployment_state(sf, [state EXCEPT !.status = status,
                                                     !.expires_at = None])
        ELSE sf
update_deployment_status(sf, id, status) ==
    LET state == get_deployment_state(sf, id)
    IN  IF state # NoState
        THEN save_deployment_state(sf, [state EXCEPT !.status = status])
        ELSE sf

\* Persisted status of a record as a later run would read it.
StatusOf(sf, id) ==
    LET state == get_deployment_state(sf, id)
    IN  IF state = NoState THEN "absent" ELSE state.status

\* A store holding one record per id, ids ascending, with the given statuses.
RECURSIVE StoreOf(_, _)
StoreOf(st, n) ==
    IF n = 0 THEN <<>> ELSE Append(StoreOf(st, n - 1), DeploymentState(n, st[n]))

\* ---------------------------------------------------------------- cleanup
RefusalText == "is not managed by neo4j-deploy. Refusing to delete for safety. Use --force to override."
DeleteFailedText == "Failed to delete resource group"

\* _verify_managed_resource_group: listing is what
\* list_managed_resource_groups returned (empty when the az call failed).
VerifyAlways(listing, rg_name) == TRUE
_verify_managed_resource_group(listing, rg_name) ==
    \E rg \in listing : rg = rg_name

NoCleanup == [deployment_id |-> 0]

\* CleanupDecision; raised marks a call that ended in an exception instead.
Decision(deployment, should_cleanup, reason, mode) ==
    [deployment_id |-> deployment.deployment_id, raised |-> FALSE,
     should_cleanup |-> should_cleanup, reason |-> reason, cleanup_mode |-> mode]

AttributeError(deployment, mode) ==
    [deployment_id |-> deployment.deployment_id, raised |-> TRUE,
     should_cleanup |-> FALSE, reason |-> "AttributeError", cleanup_mode |-> mode]

\* the record's own mode, whatever the override
RecordMode(deployment, force_mode) == deployment.cleanup_mode
\* mode = force_mode or deployment.cleanup_mode
EffectiveMode(deployment, force_mode) ==
    IF force_mode # "None" THEN force_mode ELSE deployment.cleanup_mode

\* if mode == CleanupMode.MANUAL: return CleanupDecision(should_cleanup=False)
ManualCleansUp(deployment, mode) ==
    Decision(deployment, TRUE, "Manual cleanup mode - requires explicit cleanup command", mode)
ManualDecision(deployment, mode) ==
    Decision(deployment, FALSE, "Manual cleanup mode - requires explicit cleanup command", mode)

\* if deployment.status == "deleted": the first test of the decision
NeverDeleted(deployment) == FALSE
AlreadyDeleted(deployment) == deployment.status = "deleted"

\* if mode == CleanupMode.IMMEDIATE: return CleanupDecision(should_cleanup=True)
ImmediateKeeps(deployment, mode) ==
    Decision(deployment, FALSE, "Immediate cleanup mode", mode)
ImmediateDecision(deployment, mode) ==
    Decision(deployment, TRUE, "Immediate cleanup mode", mode)

\* The on-success branch reads deployment.test_status, an attribute the
\* DeploymentState class does not declare.
OnSuccessDecision(deployment, mode) ==
    IF deployment.status = "failed"
    THEN Decision(deployment, FALSE, "Deployment failed - keeping for debugging", mode)
    ELSE IF "test_status" \notin DOMAIN deployment
    THEN AttributeError(deployment, mode)
    ELSE IF deployment.test_status = "failed"
    THEN Decision(deployment, FALSE, "Tests failed - keeping for debugging", mode)
    ELSE IF deployment.test_status \in {"not-run", "None"}
    THEN Decision(deployment, FALSE, "Tests not run yet - waiting for test results", mode)
    ELSE IF deployment.test_status = "passed"
    THEN Decision(deployment, TRUE, "Tests passed - safe to cleanup", mode)
    ELSE Decision(deployment, FALSE, "Unknown cleanup mode", mode)

\* expires_at < now in place of expires_at <= now
ScheduledStrict(deployment, mode, t) ==
    IF deployment.expires_at = None
    THEN Decision(deployment, FALSE, "No expiration time set", mode)
    ELSE IF deployment.expires_at[1] < t
    THEN Decision(deployment, TRUE, "Expired", mode)
    ELSE Decision(deployment, FALSE, "Not expired yet", mode)
ScheduledDecision(deployment, mode, t) ==
    IF deployment.expires_at = None
    THEN Decision(deployment, FALSE, "No expiration time set", mode)
    ELSE IF deployment.expires_at[1] <= t
    THEN Decision(deployment, TRUE, "Expired", mode)
    ELSE Decision(deployment, FALSE, "Not expired yet", mode)

\* should_cleanup_deployment(deployment, force_mode); t is datetime.now()
should_cleanup_deployment(deployment, force_mode, t) ==
    LET mode == EffectiveMode(deployment, force_mode)
    IN  IF AlreadyDeleted(deployment)
        THEN Decision(deployment, FALSE, "Already deleted", mode)
        ELSE IF mode = "MANUAL" THEN ManualDecision(deployment, mode)
        ELSE IF mode = "IMMEDIATE" THEN ImmediateDecision(deployment, mode)
        ELSE IF mode = "ON_SUCCESS" THEN OnSuccessDecision(deployment, mode)
        ELSE IF mode = "SCHEDULED" THEN ScheduledDecision(deployment, mode, t)
        ELSE Decision(deployment, FALSE, "Unknown cleanup mode", mode)

\* deployment.status = "deleted" on the object the caller passed in
KeepStatus(deployment) == deployment
MarkDeleted(deployment) == [deployment EXCEPT !.status = "deleted"]

\* cleanup_deployment(deployment, dry_run, no_wait, force); listing and
\* deleted are the answers of the two az calls it may make.
\* if dry_run: return before any remote call
NeverDryRun(dry_run) == FALSE
IsDryRun(dry_run) == dry_run

cleanup_deployment(deployment, dry_run, force, listing, deleted) ==
    LET rg_name == deployment.resource_group_name
        base == [deployment_id |-> deployment.deployment_id,
                 resource_group_name |-> rg_name,
                 dry_run |-> dry_run, force |-> force,
                 listing |-> listing, listed |-> FALSE, destroy |-> FALSE,
                 success |-> FALSE, error_message |-> "None"]
    IN
    /\ cleanup_calls' = cleanup_calls + 1
    /\ IF IsDryRun(dry_run)
       THEN /\ last_cleanup' = [base EXCEPT !.success = TRUE, !.listing = {}]
            /\ UNCHANGED <<state_file, destroy_log>>
       ELSE IF ~force /\ ~_verify_managed_resource_group(listing, rg_name)
       THEN /\ last_cleanup' = [base EXCEPT !.listed = TRUE,
                                            !.error_message = RefusalText]
            /\ UNCHANGED <<state_file, destroy_log>>
       ELSE /\ destroy_log' = Append(destroy_log, rg_name)
            /\ IF deleted
               THEN /\ state_file' = save_deployment_state(state_file,
                                        MarkDeleted(deployment))
                    /\ last_cleanup' = [base EXCEPT !.listed = TRUE,
                                          !.destroy = TRUE, !.success = TRUE]
               ELSE /\ last_cleanup' = [base EXCEPT !.listed = TRUE,
                                          !.destroy = TRUE,
                                          !.error_message = DeleteFailedText]
                    /\ UNCHANGED state_file

\* The cleanup command loads the records from the store; auto-cleanup passes
\* the object built by deploy, whose status field may trail the store.
CleanupDeployment ==
    \E id \in Ids, st \in Status, dry_run \in BOOLEAN, force \in BOOLEAN,
       listing \in SUBSET RGs, deleted \in BOOLEAN :
        /\ cleanup_calls < MaxCleanupCalls
        /\ get_deployment_state(state_file, id) # NoState
        /\ cleanup_deployment(DeploymentState(id, st), dry_run, force,
                              listing, deleted)
        /\ UNCHANGED <<now, opVars, cleanup_cmd, deployVars, monitorVars>>

\* ------------------------------------------------- idle values per component
NoOp == [op |-> "none"]
NoDecision == [deployment_id |-> 0]
NoCommand == [pc |-> "off"]

IdlePost ==
    /\ rg_created = [id \in Ids |-> "none"]
    /\ pp = 0
    /\ succeeded_count = 0
    /\ failed_count = 0
    /\ consulted = <<>>
    /\ exit_code = "none"

IdleCleanup ==
    /\ cleanup_calls = 0
    /\ destroy_log = <<>>
    /\ last_cleanup = NoCleanup
    /\ last_op = NoOp
    /\ decision = NoDecision
    /\ cleanup_cmd = NoCommand

IdleDeploy ==
    /\ dpc = "off"
    /\ cur = 0
    /\ skip_validation = FALSE
    /\ deployment_states = <<>>
    /\ submit_ret = [id \in Ids |-> "none"]
    /\ validate_calls = [id \in Ids |-> 0]
    /\ create_calls = [id \in Ids |-> 0]
    /\ verify_calls = [id \in Ids |-> 0]
    /\ create_outcome = [id \in Ids |-> "none"]
    /\ verify_outcome = [id \in Ids |-> "none"]
    /\ cleanup = default_cleanup_mode
    /\ IdlePost

IdleMonitor ==
    /\ mpc = "off"
    /\ live = FALSE
    /\ timeout_seconds = 0
    /\ poll_interval = 1
    /\ input = {}
    /\ start_times = EmptyMap
    /\ active = {}
    /\ final_statuses = EmptyMap
    /\ queue = <<>>
    /\ current_time = 0
    /\ tick_start = 0
    /\ ticks = 0
    /\ sleeps = 0
    /\ polls = [id \in Ids |-> 0]
    /\ dash = [id \in Ids |-> 0]
    /\ polled_in_tick = {}
    /\ resolved_tick = [id \in Ids |-> 0]
    /\ last_poll = NoPoll
    /\ status_at_call = [id \in Ids |-> "absent"]

\* ------------------------------------------------- deploy loop and submit
SpuriousSignature == "The content for this response was already consumed"

\* The branch taken on the result of az deployment group create.
VerifyEveryFailure(returncode, stderr_content) == returncode # 0
is_spurious_error(returncode, stderr_content) ==
    returncode # 0 /\ stderr_content = SpuriousSignature

\* The status submit_deployment writes on its accepting and rejecting paths.
AlwaysDeploying(accepted) == "deploying"
SubmitStatus(accepted) == IF accepted THEN "deploying" ELSE "failed"

\* if orchestrator.submit_deployment(...): deployment_states.append(state)
CollectAll(states, id, accepted) == Append(states, id)
Collect(states, id, accepted) == IF accepted THEN Append(states, id) ELSE states

\* submit_deployment returns; deploy keeps the record only when it is true.
SubmitReturn(id, accepted) ==
    /\ state_file' = update_deployment_status(state_file, id, SubmitStatus(accepted))
    /\ submit_ret' = [submit_ret EXCEPT ![id] = IF accepted THEN "true" ELSE "false"]
    /\ deployment_states' = Collect(deployment_states, id, accepted)
    /\ dpc' = "next"

\* state = DeploymentState(..., cleanup_mode=cleanup, status="pending"): the
\* object deploy keeps; the store's copies are updated, this one is not.
NewState(id, mode) == [DeploymentState(id, "pending") EXCEPT !.cleanup_mode = mode]

\* for s, param_file in param_files: create the resource group, save the
\* pending record, call submit_deployment.
DeployNext ==
    /\ dpc = "next"
    /\ IF cur = MaxIds
       THEN /\ dpc' = "submitted"
            /\ UNCHANGED <<cur, state_file, rg_created>>
       ELSE /\ cur' = cur + 1
            /\ \E created \in BOOLEAN :
                 /\ rg_created' = [rg_created EXCEPT ![cur + 1] =
                                      IF created THEN "true" ELSE "false"]
                 /\ IF created
                    THEN /\ state_file' = save_deployment_state(state_file,
                                             NewState(cur + 1, cleanup))
                         /\ dpc' = "validate"
                    ELSE /\ dpc' = "next"
                         /\ UNCHANGED state_file
    /\ now' = cur
    /\ UNCHANGED <<cleanupVars, monitorVars, skip_validation, deployment_states,
                   submit_ret, validate_calls, create_calls, verify_calls,
                   create_outcome, verify_outcome, cleanup, pp,
                   succeeded_count, failed_count, consulted, exit_code>>

\* if not skip_validation: validate_deployment (az deployment group validate)
SubmitValidate ==
    /\ dpc = "validate"
    /\ IF skip_validation
       THEN /\ dpc' = "create"
            /\ UNCHANGED <<state_file, submit_ret, deployment_states,
                           validate_calls>>
       ELSE /\ validate_calls' = [validate_calls EXCEPT ![cur] = @ + 1]
            /\ \E is_valid \in BOOLEAN :
                 IF is_valid
                 THEN /\ dpc' = "create"
                      /\ UNCHANGED <<state_file, submit_ret, deployment_states>>
                 ELSE SubmitReturn(cur, FALSE)
    /\ UNCHANGED <<now, cleanupVars, monitorVars, cur, skip_validation,
                   create_calls, verify_calls, create_outcome, verify_outcome,
                   postVars>>

\* result = run_command(az deployment group create ...) and the three-way
\* branch on it; an exception lands in the except clause.
SubmitCreate ==
    /\ dpc = "create"
    /\ create_calls' = [create_calls EXCEPT ![cur] = @ + 1]
    /\ \E raised \in BOOLEAN, returncode \in {0, 1},
          stderr_content \in {"", SpuriousSignature, "QuotaExceeded"} :
         /\ create_outcome' = [create_outcome EXCEPT ![cur] =
               IF raised THEN "raised"
               ELSE IF returncode = 0 THEN "ok"
               ELSE IF stderr_content = SpuriousSignature THEN "spurious"
               ELSE "error"]
         /\ IF raised THEN SubmitReturn(cur, FALSE)
            ELSE IF returncode = 0 THEN SubmitReturn(cur, TRUE)
            ELSE IF is_spurious_error(returncode, stderr_content)
            THEN /\ dpc' = "verify"
                 /\ UNCHANGED <<state_file, submit_ret, deployment_states>>
            ELSE SubmitReturn(cur, FALSE)
    /\ UNCHANGED <<now, cleanupVars, monitorVars, cur, skip_validation,
                   validate_calls, verify_calls, verify_outcome, postVars>>

\* time.sleep(3); verify_result = run_command(az deployment group show ...)
SubmitVerify ==
    /\ dpc = "verify"
    /\ verify_calls' = [verify_calls EXCEPT ![cur] = @ + 1]
    /\ \E raised \in BOOLEAN, returncode \in {0, 1}, stdout \in {"", "name"} :
         /\ verify_outcome' = [verify_outcome EXCEPT ![cur] =
               IF raised THEN "raised"
               ELSE IF returncode # 0 THEN "error"
               ELSE IF stdout = "" THEN "absent" ELSE "exists"]
         /\ SubmitReturn(cur, ~raised /\ returncode = 0 /\ stdout # "")
    /\ UNCHANGED <<now, cleanupVars, monitorVars, cur, skip_validation,
                   validate_calls, create_calls, create_outcome, postVars>>

InitDeploy ==
    /\ state_file = save_json(<<>>)
    /\ now = 0
    /\ IdleCleanup /\ IdleMonitor
    /\ dpc = "next"
    /\ cur = 0
    /\ skip_validation \in BOOLEAN
    /\ deployment_states = <<>>
    /\ submit_ret = [id \in Ids |-> "none"]
    /\ validate_calls = [id \in Ids |-> 0]
    /\ create_calls = [id \in Ids |-> 0]
    /\ verify_calls = [id \in Ids |-> 0]
    /\ create_outcome = [id \in Ids |-> "none"]
    /\ verify_outcome = [id \in Ids |-> "none"]
    /\ cleanup \in CleanupMode
    /\ IdlePost

NextDeploy == DeployNext \/ SubmitValidate \/ SubmitCreate \/ SubmitVerify

SpecDeploy == InitDeploy /\ [][NextDeploy]_vars

\* ---------------------------------------------------------------- monitor
TerminalStatuses == {"Succeeded", "Failed", "Canceled"}

NeverTimedOut(elapsed, timeout) == FALSE
TimedOut(elapsed, timeout) == elapsed > timeout

AnyAnswerTerminal(status) == TRUE
IsTerminal(status) == status \in TerminalStatuses

\* del active_deployments[deployment_id]
KeepActive(act, id) == act
DropAll(act, id) == {}
Remaining(act, id) == act \ {id}

AlwaysSucceeded(status) == "succeeded"
StoreStatusFor(status) == IF status = "Succeeded" THEN "succeeded" ELSE "failed"

SleepAlways(act) == TRUE
ShouldSleep(act) == act # {}

\* start_times = {state.deployment_id: datetime.now(timezone.utc) for ...}
StartTime(id, t) == t

\* _generate_status_table: one get_deployment_status per active deployment
DashboardQueries(act) == [id \in Ids |-> IF id \in act THEN dash[id] + 1 ELSE dash[id]]

MonitorRunning == mpc \in {"loop", "iter", "sleep"}

\* Entry of monitor_deployments up to the first while test.
MonitorBegin ==
    /\ mpc = "idle"
    /\ start_times' = [id \in input |-> StartTime(id, now)]
    /\ active' = input
    /\ final_statuses' = EmptyMap
    /\ dash' = IF live THEN DashboardQueries(input) ELSE dash
    /\ mpc' = "loop"
    /\ UNCHANGED <<last_poll, status_at_call, state_file, now, cleanupVars, deployVars, live,
                   timeout_seconds, poll_interval, input, queue, current_time, tick_start,
                   ticks, sleeps, polls, polled_in_tick, resolved_tick>>

\* while active_deployments: ... for deployment_id in list(active.keys())
LoopHead ==
    /\ mpc = "loop"
    /\ IF active = {}
       THEN /\ mpc' = "done"
            /\ UNCHANGED <<ticks, current_time, tick_start, queue, polled_in_tick>>
       ELSE /\ mpc' = "iter"
            /\ ticks' = ticks + 1
            /\ current_time' = IF live THEN current_time ELSE now
            /\ tick_start' = now
            /\ queue' = Keys(active)
            /\ polled_in_tick' = {}
    /\ UNCHANGED <<last_poll, status_at_call, state_file, now, cleanupVars, deployVars, live,
                   timeout_seconds, poll_interval, input, start_times, active,
                   final_statuses, sleeps, polls, dash, resolved_tick>>

\* The clock reading the timeout test uses: a fresh datetime.now() per record
\* under the live dashboard, the reading taken at the top of the tick otherwise.
Reading == IF live THEN now ELSE current_time

Resolve(id, status, store_status) ==
    /\ state_file' = update_deployment_status(state_file, id, store_status)
    /\ final_statuses' = Put(final_statuses, id, status)
    /\ active' = Remaining(active, id)
    /\ resolved_tick' = [resolved_tick EXCEPT ![id] = ticks]

\* One pass of the for body over the next deployment of this tick.
CheckTimeout ==
    /\ mpc = "iter" /\ queue # <<>>
    /\ LET id == Head(queue) IN
        /\ TimedOut(Reading - start_times[id], timeout_seconds)
        /\ Resolve(id, "Timeout", "failed")
    /\ queue' = Tail(queue)
    /\ UNCHANGED <<last_poll, status_at_call, now, cleanupVars, deployVars, mpc, live, timeout_seconds,
                   poll_interval, input, start_times, current_time, tick_start, ticks,
                   sleeps, polls, dash, polled_in_tick>>

PollStatus ==
    /\ mpc = "iter" /\ queue # <<>>
    /\ LET id == Head(queue) IN
        /\ ~TimedOut(Reading - start_times[id], timeout_seconds)
        /\ polls' = [polls EXCEPT ![id] = @ + 1]
        /\ polled_in_tick' = polled_in_tick \cup {id}
        /\ \E status \in RemoteStatuses :
             /\ last_poll' = [deployment_id |-> id, status |-> status]
             /\ IF IsTerminal(status)
                THEN Resolve(id, status, StoreStatusFor(status))
                ELSE UNCHANGED <<state_file, final_statuses, active,
                                 resolved_tick>>
    /\ queue' = Tail(queue)
    /\ UNCHANGED <<status_at_call, now, cleanupVars, deployVars, mpc, live, timeout_seconds,
                   poll_interval, input, start_times, current_time, tick_start, ticks,
                   sleeps, dash>>

\* End of the for loop: if active_deployments: (live.update(...)) time.sleep
TickEnd ==
    /\ mpc = "iter" /\ queue = <<>>
    /\ IF ShouldSleep(active)
       THEN /\ mpc' = "sleep"
            /\ dash' = IF live THEN DashboardQueries(active) ELSE dash
       ELSE /\ mpc' = "loop"
            /\ UNCHANGED dash
    /\ UNCHANGED <<last_poll, status_at_call, state_file, now, cleanupVars, deployVars, live,
                   timeout_seconds, poll_interval, input, start_times, active,
                   final_statuses, queue, current_time, tick_start, ticks, sleeps, polls,
                   polled_in_tick, resolved_tick>>

\* time.sleep(self.poll_interval)
Sleep ==
    /\ mpc = "sleep"
    /\ now' = Min(now + poll_interval, MaxNow)
    /\ sleeps' = sleeps + 1
    /\ mpc' = "loop"
    /\ UNCHANGED <<last_poll, status_at_call, state_file, cleanupVars, deployVars, live, timeout_seconds,
                   poll_interval, input, start_times, active, final_statuses,
                   queue, current_time, tick_start, ticks, polls, dash, polled_in_tick,
                   resolved_tick>>

\* Remote calls and rendering take time too.
TimePasses ==
    /\ MonitorRunning
    /\ now < MaxNow
    /\ now' = now + 1
    /\ UNCHANGED <<state_file, cleanupVars, deployVars, monitorVars>>

MonitorStep == MonitorBegin \/ LoopHead \/ CheckTimeout \/ PollStatus
                  \/ TickEnd \/ Sleep

\* ------------------------------------------------------ monitor behaviours
\* monitor_deployments called on records of the store; deploy hands it records
\* it has just submitted, a later caller may hand it finished ones.
InitMonitor ==
    /\ \E st \in [Ids -> {"deploying", "succeeded"}] :
          /\ state_file = save_json(DumpAll(StoreOf(st, MaxIds)))
          /\ status_at_call = st
    /\ now = MonitorStart
    /\ IdleCleanup /\ IdleDeploy
    /\ mpc = "idle"
    /\ live \in BOOLEAN
    /\ timeout_seconds \in 0..MaxTimeout
    /\ poll_interval \in 1..MaxPoll
    /\ input \in SUBSET Ids
    /\ start_times = EmptyMap
    /\ active = {}
    /\ final_statuses = EmptyMap
    /\ queue = <<>>
    /\ current_time = 0
    /\ tick_start = 0
    /\ ticks = 0
    /\ sleeps = 0
    /\ polls = [id \in Ids |-> 0]
    /\ dash = [id \in Ids |-> 0]
    /\ polled_in_tick = {}
    /\ resolved_tick = [id \in Ids |-> 0]
    /\ last_poll = NoPoll

NextMonitor == MonitorStep \/ TimePasses

SpecMonitor == InitMonitor /\ [][NextMonitor]_vars

\* Process signal during the monitor loop: KeyboardInterrupt unwinds
\* monitor_deployments and deploy and is caught in main, which writes nothing.
InterruptBetweenWrites ==
    /\ MonitorRunning
    /\ mpc' = "interrupted"
    /\ UNCHANGED <<state_file, now, cleanupVars, deployVars, live,
                   timeout_seconds, poll_interval, input, start_times, active,
                   final_statuses, queue, current_time, tick_start, ticks, sleeps, polls,
                   dash, polled_in_tick, resolved_tick, last_poll,
                   status_at_call>>

\* The signal arrives while update_deployment_status is inside save_json for
\* the record the for body is resolving: the file is already truncated.
InterruptDuringWrite ==
    /\ mpc = "iter" /\ queue # <<>>
    /\ LET id == Head(queue) IN
        /\ get_deployment_state(state_file, id) # NoState
        /\ \/ /\ TimedOut(Reading - start_times[id], timeout_seconds)
              /\ UNCHANGED <<polls, polled_in_tick, last_poll>>
           \/ /\ ~TimedOut(Reading - start_times[id], timeout_seconds)
              /\ polls' = [polls EXCEPT ![id] = @ + 1]
              /\ polled_in_tick' = polled_in_tick \cup {id}
              /\ \E status \in TerminalStatuses :
                    last_poll' = [deployment_id |-> id, status |-> status]
    /\ state_file' = PartialWrite(state_file)
    /\ mpc' = "interrupted"
    /\ UNCHANGED <<now, cleanupVars, deployVars, live, timeout_seconds,
                   poll_interval, input, start_times, active, final_statuses,
                   queue, current_time, tick_start, ticks, sleeps, dash, resolved_tick,
                   status_at_call>>

NextInterrupt == NextMonitor \/ InterruptBetweenWrites \/ InterruptDuringWrite

SpecInterrupt == InitMonitor /\ [][NextInterrupt]_vars

\* The poll loop runs on one thread that is never starved, and time.sleep
\* returns: every enabled step of the loop is eventually taken.
LiveSpecMonitor == SpecMonitor /\ WF_vars(MonitorStep)

\* ------------------------------------------------------ cleanup behaviours
InitCleanup ==
    /\ \E st \in [Ids -> Status] : state_file = save_json(DumpAll(StoreOf(st, MaxIds)))
    /\ now = 0
    /\ IdleCleanup /\ IdleDeploy /\ IdleMonitor

NextCleanup == CleanupDeployment

SpecCleanup == InitCleanup /\ [][NextCleanup]_vars

\* ------------------------------------------------- state store behaviours
\* Records a caller may hand to save_deployment_state: any status, with or
\* without an expiry.
StoreRecords ==
    {[DeploymentState(id, st) EXCEPT !.cleanup_mode = p[1], !.expires_at = p[2]] :
        id \in Ids, st \in Status,
        p \in {<<"MANUAL", None>>, <<"SCHEDULED", <<1>>>>}}

\* What a stop between open(path, "w") and the end of json.dump can leave:
\* a prefix of the new document.
PartialWrites(sf) ==
    {[data |-> SubSeq(sf.data, 1, k), ok |-> FALSE] : k \in 0..Len(sf.data)}

\* rg_manager.save_deployment_state(state)
Upsert ==
    \E state \in StoreRecords :
        /\ state_file' = save_deployment_state(state_file, state)
        /\ last_op' = [op |-> "save_deployment_state", state |-> state,
                       before |-> state_file, outcome |-> "None"]

\* rg_manager.update_deployment_status(deployment_id, status): returns None
\* whether or not the id was found.
UpdateStatus ==
    \E id \in Ids, status \in Status :
        /\ state_file' = update_deployment_status(state_file, id, status)
        /\ last_op' = [op |-> "update_deployment_status", deployment_id |-> id,
                       status |-> status,
                       found |-> get_deployment_state(state_file, id) # NoState,
                       before |-> state_file, outcome |-> "None"]

\* The process stops inside save_json while one of the two mutations is
\* writing the collection `after`.
StopDuringWrite ==
    \E state \in StoreRecords, update \in BOOLEAN :
        LET after == IF update
                     THEN update_deployment_status(state_file,
                              state.deployment_id, state.status)
                     ELSE save_deployment_state(state_file, state)
        IN  /\ update => get_deployment_state(state_file,
                                              state.deployment_id) # NoState
            /\ state_file' \in PartialWrites(after)
            /\ last_op' = [op |-> "stopped", before |-> state_file,
                           after |-> after, outcome |-> "None"]

StoreFrame ==
    UNCHANGED <<now, cleanup_calls, destroy_log, last_cleanup, decision,
                cleanup_cmd, deployVars, monitorVars>>

InitStore ==
    /\ \E S \in SUBSET Ids, st \in [Ids -> Status] :
          state_file = save_json(DumpAll(
              SelectSeq(StoreOf(st, MaxIds), LAMBDA r : r.deployment_id \in S)))
    /\ now = 0
    /\ IdleCleanup /\ IdleDeploy /\ IdleMonitor

NextStore == (Upsert /\ StoreFrame) \/ (UpdateStatus /\ StoreFrame)
                \/ (StopDuringWrite /\ StoreFrame)

SpecStore == InitStore /\ [][NextStore]_vars

\* ------------------------------------------------ policy engine behaviours
\* DeploymentState objects of every status and policy, with no expiry, one
\* that has passed at every reading, and one that passes in between.
DecideRecords ==
    {[DeploymentState(id, st) EXCEPT !.cleanup_mode = m, !.expires_at = x] :
        id \in Ids, st \in Status, m \in CleanupMode,
        x \in {None, <<0>>, <<MonitorStart>>}}

\* cleanup_manager.should_cleanup_deployment(deployment, force_mode)
Decide ==
    /\ \E deployment \in DecideRecords, force_mode \in CleanupMode \cup {"None"} :
         /\ decision' = should_cleanup_deployment(deployment, force_mode, now)
         /\ last_op' = [op |-> "should_cleanup_deployment",
                        deployment |-> deployment, force_mode |-> force_mode,
                        t |-> now]
    /\ UNCHANGED <<state_file, now, cleanup_calls, destroy_log, last_cleanup,
                   cleanup_cmd, deployVars, monitorVars>>

InitDecide ==
    /\ state_file = save_json(<<>>)
    /\ now \in 0..MaxNow
    /\ IdleCleanup /\ IdleDeploy /\ IdleMonitor

NextDecide == Decide

SpecDecide == InitDecide /\ [][NextDecide]_vars

\* ------------------------------------------------------- the deploy command
Range(seq) == {seq[i] : i \in 1..Len(seq)}

\* if not deployment_states: raise typer.Exit(1); otherwise
\* monitor.monitor_deployments(deployment_states, show_live_dashboard=True)
DeployMonitor ==
    /\ dpc = "submitted" /\ mpc = "off"
    /\ IF deployment_states = <<>>
       THEN /\ dpc' = "exit"
            /\ exit_code' = "1"
            /\ UNCHANGED <<mpc, input, live, status_at_call>>
       ELSE /\ dpc' = "post"
            /\ mpc' = "idle"
            /\ input' = Range(deployment_states)
            /\ live' = TRUE
            /\ status_at_call' = [id \in Ids |-> StatusOf(state_file, id)]
            /\ UNCHANGED exit_code
    /\ UNCHANGED <<state_file, now, cleanupVars, cur, skip_validation,
                   deployment_states, submit_ret, validate_calls, create_calls,
                   verify_calls, create_outcome, verify_outcome, cleanup,
                   rg_created, pp, succeeded_count, failed_count, consulted,
                   timeout_seconds, poll_interval, start_times, active,
                   final_statuses, queue, current_time, tick_start, ticks, sleeps, polls,
                   dash, polled_in_tick, resolved_tick, last_poll>>

\* auto_cleanup_deployment(state): the decision, then cleanup_deployment with
\* dry_run and force off; an exception of the decision unwinds deploy into
\* main, which returns 1.
auto_cleanup_deployment(deployment) ==
    LET d == should_cleanup_deployment(deployment, "None", now)
    IN  /\ consulted' = Append(consulted, deployment.deployment_id)
        /\ decision' = d
        /\ IF d.raised
           THEN /\ dpc' = "exit"
                /\ exit_code' = "1"
                /\ UNCHANGED <<state_file, cleanup_calls, destroy_log,
                               last_cleanup>>
           ELSE /\ UNCHANGED <<dpc, exit_code>>
                /\ IF d.should_cleanup
                   THEN \E listing \in SUBSET RGs, deleted \in BOOLEAN :
                          cleanup_deployment(deployment, FALSE, FALSE,
                                             listing, deleted)
                   ELSE UNCHANGED <<state_file, cleanup_calls, destroy_log,
                                    last_cleanup>>

\* for state in deployment_states: ... and the exit status after the loop.
\* outputs, conn_info: whether extract_outputs and parse_connection_info
\* returned something.
PostProcess ==
    /\ dpc = "post" /\ mpc = "done"
    /\ IF pp = Len(deployment_states)
       THEN /\ dpc' = "exit"
            /\ exit_code' = IF failed_count > 0 THEN "1" ELSE "0"
            /\ UNCHANGED <<state_file, cleanup_calls, destroy_log, last_cleanup,
                           decision, pp, succeeded_count, failed_count,
                           consulted>>
       ELSE LET id == deployment_states[pp + 1]
                state == NewState(id, cleanup)
                final_status == final_statuses[id]
            IN  /\ pp' = pp + 1
                /\ IF final_status = "Succeeded"
                   THEN /\ succeeded_count' = succeeded_count + 1
                        /\ UNCHANGED failed_count
                        /\ \E outputs \in BOOLEAN, conn_info \in BOOLEAN :
                             IF outputs /\ conn_info
                             THEN auto_cleanup_deployment(state)
                             ELSE UNCHANGED <<state_file, cleanup_calls,
                                              destroy_log, last_cleanup,
                                              decision, consulted, dpc,
                                              exit_code>>
                   ELSE /\ failed_count' = failed_count + 1
                        /\ UNCHANGED succeeded_count
                        /\ auto_cleanup_deployment(state)
    /\ UNCHANGED <<now, last_op, cleanup_cmd, monitorVars, cur, skip_validation,
                   deployment_states, submit_ret, validate_calls, create_calls,
                   verify_calls, create_outcome, verify_outcome, cleanup,
                   rg_created>>

\* neo4j-deploy cleanup run after deploy has ended: the records come from the
\* store; --force replaces the policy decision, otherwise only records the
\* policy selects are passed to cleanup_deployment.
CleanupCommand ==
    /\ dpc = "exit"
    /\ cleanup_calls < MaxCleanupCalls
    /\ \E id \in Ids, dry_run \in BOOLEAN, force \in BOOLEAN,
          listing \in {{}, RGs}, deleted \in BOOLEAN :
         LET deployment == get_deployment_state(state_file, id)
             d == IF force
                  THEN Decision(deployment, TRUE, "Force flag specified",
                                deployment.cleanup_mode)
                  ELSE should_cleanup_deployment(deployment, "None", now)
         IN  /\ deployment # NoState
             /\ ~d.raised /\ d.should_cleanup
             /\ decision' = d
             /\ cleanup_deployment(deployment, dry_run, force, listing, deleted)
    /\ UNCHANGED <<now, last_op, cleanup_cmd, deployVars, monitorVars>>

\* One deploy invocation from an empty store, then cleanup commands. The
\* monitor is built with one poll interval and one timeout, and the clock
\* advances by the sleeps of the poll loop.
Init ==
    /\ state_file = save_json(<<>>)
    /\ now = 0
    /\ IdleCleanup
    /\ dpc = "next"
    /\ cur = 0
    /\ skip_validation = FALSE
    /\ deployment_states = <<>>
    /\ submit_ret = [id \in Ids |-> "none"]
    /\ validate_calls = [id \in Ids |-> 0]
    /\ create_calls = [id \in Ids |-> 0]
    /\ verify_calls = [id \in Ids |-> 0]
    /\ create_outcome = [id \in Ids |-> "none"]
    /\ verify_outcome = [id \in Ids |-> "none"]
    /\ cleanup \in CleanupMode
    /\ IdlePost
    /\ mpc = "off"
    /\ live = TRUE
    /\ timeout_seconds = 1
    /\ poll_interval = 1
    /\ input = {}
    /\ start_times = EmptyMap
    /\ active = {}
    /\ final_statuses = EmptyMap
    /\ queue = <<>>
    /\ current_time = 0
    /\ tick_start = 0
    /\ ticks = 0
    /\ sleeps = 0
    /\ polls = [id \in Ids |-> 0]
    /\ dash = [id \in Ids |-> 0]
    /\ polled_in_tick = {}
    /\ resolved_tick = [id \in Ids |-> 0]
    /\ last_poll = NoPoll
    /\ status_at_call = [id \in Ids |-> "absent"]

Next == NextDeploy \/ DeployMonitor \/ MonitorStep \/ PostProcess
           \/ CleanupCommand

Spec == Init /\ [][Next]_vars

\* C1: with dry_run = false and force = false the resource group is destroyed
\* only if its name was in the managed listing fetched by that call; otherwise
\* the call fails with the refusal text (not the delete-failure text), issues
\* no destroy and leaves the store as it was.
SafetyGate ==
    [][ (cleanup_calls' = cleanup_calls + 1
            /\ ~last_cleanup'.dry_run /\ ~last_cleanup'.force)
        => /\ last_cleanup'.listed
           /\ (destroy_log' # destroy_log
                 => /\ last_cleanup'.resource_group_name \in last_cleanup'.listing
                    /\ destroy_log' = Append(destroy_log,
                                             last_cleanup'.resource_group_name))
           /\ (last_cleanup'.resource_group_name \notin last_cleanup'.listing
                 => /\ ~last_cleanup'.success
                    /\ last_cleanup'.error_message = RefusalText
                    /\ last_cleanup'.error_message # DeleteFailedText
                    /\ ~last_cleanup'.destroy
                    /\ destroy_log' = destroy_log
                    /\ state_file' = state_file) ]_vars

\* A refused call on a record that is in the store and not yet deleted.
SafetyGateWitness ==
    /\ last_cleanup # NoCleanup
    /\ ~last_cleanup.dry_run /\ ~last_cleanup.force
    /\ last_cleanup.resource_group_name \notin last_cleanup.listing
    /\ last_cleanup.listing # {}
    /\ last_cleanup.error_message = RefusalText
    /\ StatusOf(state_file, last_cleanup.deployment_id) = "succeeded"

\* ----------------------------------------------------------------- monitor
Resolved(id) == id \in DOMAIN final_statuses
NewlyResolved(id) == ~Resolved(id) /\ id \in DOMAIN final_statuses'
Visiting(id) == mpc = "iter" /\ queue # <<>> /\ Head(queue) = id /\ queue' # queue

\* C2: a visited record whose elapsed time exceeds the timeout gets Timeout
\* in the result map, failed in the store, leaves the active set, and is not
\* queried in that tick nor ever after.
TimeoutHandling ==
    [][ \A id \in Ids :
          /\ (Visiting(id) /\ Reading - start_times[id] > timeout_seconds
                /\ mpc' # "interrupted")
               => /\ NewlyResolved(id)
                  /\ final_statuses'[id] = "Timeout"
          /\ (NewlyResolved(id) /\ final_statuses'[id] = "Timeout")
               => /\ StatusOf(state_file', id) = "failed"
                  /\ id \notin active'
                  /\ id \notin polled_in_tick'
                  /\ polls'[id] = polls[id] /\ dash'[id] = dash[id]
          /\ (Resolved(id) /\ final_statuses[id] = "Timeout")
               => /\ polls'[id] = polls[id] /\ dash'[id] = dash[id]
                  /\ id \notin active'
                  /\ Resolved(id)' /\ final_statuses'[id] = "Timeout" ]_vars

\* A record polled at least once, then timed out, while the loop went on
\* polling another record in later ticks.
TimeoutHandlingWitness ==
    \E id \in input :
        /\ Resolved(id) /\ final_statuses[id] = "Timeout"
        /\ polls[id] >= 1
        /\ resolved_tick[id] < ticks
        /\ StatusOf(state_file, id) = "failed"
        /\ \E other \in input : polls[other] > polls[id]

\* C3: a poll answered Succeeded, Failed or Canceled writes succeeded or
\* failed accordingly, records the answer in the result map and removes the
\* record from the active set in the same step; on return a record is
\* persisted as succeeded exactly when the map says Succeeded.
TerminalDetection ==
    /\ [][ \A id \in Ids :
             (polls'[id] # polls[id] /\ last_poll'.status \in TerminalStatuses
                /\ mpc' # "interrupted")
               => /\ StatusOf(state_file', id) =
                        (IF last_poll'.status = "Succeeded" THEN "succeeded"
                                                            ELSE "failed")
                  /\ NewlyResolved(id)
                  /\ final_statuses'[id] = last_poll'.status
                  /\ id \notin active' ]_vars
    /\ [](mpc = "done" =>
            \A id \in input :
               /\ Resolved(id)
               /\ StatusOf(state_file, id) = "succeeded"
                     <=> final_statuses[id] = "Succeeded")

TerminalDetectionWitness ==
    /\ mpc = "done"
    /\ \E a, b \in input :
         /\ final_statuses[a] = "Succeeded" /\ StatusOf(state_file, a) = "succeeded"
         /\ final_statuses[b] = "Canceled" /\ StatusOf(state_file, b) = "failed"
         /\ status_at_call[b] = "deploying"

\* C4 (as claimed): the deadline of a record runs from its own submission
\* time: it is polled only while reading - created_at <= timeout and is
\* timed out only once reading - created_at > timeout.
PerRecordDeadline ==
    [][ \A id \in Ids :
          /\ polls'[id] # polls[id]
               => Reading - CreatedAt(id) <= timeout_seconds
          /\ (NewlyResolved(id) /\ final_statuses'[id] = "Timeout")
               => Reading - CreatedAt(id) > timeout_seconds ]_vars

\* C5 (as claimed): a record already succeeded in the store when monitoring
\* is entered is reported Succeeded without any remote status query.
IdempotentOnTerminalInput ==
    \A id \in input :
        status_at_call[id] = "succeeded"
          => /\ polls[id] = 0 /\ dash[id] = 0
             /\ (mpc = "done" => Resolved(id) /\ final_statuses[id] = "Succeeded")

\* C6: the loop sleeps after a tick only while some record is still active
\* and returns once none is: one sleep between consecutive ticks and none
\* after the last, so a first tick that resolves everything ends the call
\* after one tick and no sleep.
SleepOnlyWhileActive ==
    /\ (mpc = "sleep" => active # {})
    /\ sleeps <= ticks
    /\ (mpc = "done" =>
          /\ active = {}
          /\ sleeps = (IF ticks = 0 THEN 0 ELSE ticks - 1)
          /\ ((input # {} /\ \A id \in input : resolved_tick[id] = 1)
                => ticks = 1 /\ sleeps = 0))
    /\ ((mpc = "loop" /\ active = {} /\ ticks > 0) => sleeps = ticks - 1)

\* Three-way first tick: one record timed out, one Succeeded, none left.
SleepOnlyWhileActiveWitness ==
    /\ mpc = "done" /\ ticks = 1 /\ sleeps = 0
    /\ \E a, b \in input :
         /\ final_statuses[a] = "Timeout"
         /\ final_statuses[b] = "Succeeded"

\* C7: whatever the remote side answers, the call returns, and then every
\* input record is reported with a terminal status or Timeout.
MonitorTerminates ==
    <>(/\ mpc = "done"
       /\ DOMAIN final_statuses = input
       /\ \A id \in input :
            final_statuses[id] \in TerminalStatuses \cup {"Timeout"})

\* Returned after a record was answered non-terminally on every poll.
MonitorTerminatesWitness ==
    /\ mpc = "done"
    /\ \E id \in input :
         /\ final_statuses[id] = "Timeout"
         /\ polls[id] >= 2
         /\ last_poll.status \in {"Running", "None"}

\* C8 (as claimed): an interruption leaves every record still active, and
\* every record already resolved, with the persisted status it had.
InterruptKeepsStatuses ==
    [][ (mpc' = "interrupted" /\ mpc # "interrupted")
        => \A id \in input :
             (id \in active \/ Resolved(id))
               => StatusOf(state_file', id) = StatusOf(state_file, id) ]_vars

\* ------------------------------------------------------------------ submit
Returned(id) == submit_ret[id] # "none"

\* C9: a clean success of the create call ends in deploying and true, a
\* failure without the spurious signature or an exception ends in failed and
\* false; submit returns true exactly when it wrote deploying; the create
\* call is issued at most once per submit.
SubmitOutcome ==
    \A id \in Ids :
        /\ create_calls[id] <= 1
        /\ Returned(id) =>
             /\ StatusOf(state_file, id) \in {"deploying", "failed"}
             /\ submit_ret[id] = "true" <=> StatusOf(state_file, id) = "deploying"
             /\ create_outcome[id] = "ok"
                  => submit_ret[id] = "true" /\ StatusOf(state_file, id) = "deploying"
             /\ create_outcome[id] \in {"error", "raised"}
                  => submit_ret[id] = "false" /\ StatusOf(state_file, id) = "failed"
             /\ create_outcome[id] = "none" => submit_ret[id] = "false"

\* One record accepted on a clean success and one rejected on a real error.
SubmitOutcomeWitness ==
    \E a, b \in Ids :
        /\ create_outcome[a] = "ok" /\ submit_ret[a] = "true"
        /\ StatusOf(state_file, a) = "deploying"
        /\ create_outcome[b] = "error" /\ submit_ret[b] = "false"
        /\ StatusOf(state_file, b) = "failed"

\* C10: a non-zero create result with the spurious signature is followed by
\* exactly one re-verification, whose answer decides: deploying and true if
\* the deployment exists, failed and false if it is absent or the query gives
\* no answer; any other create result is never re-verified.
SpuriousReverified ==
    \A id \in Ids :
        /\ verify_calls[id] <= 1
        /\ create_outcome[id] # "spurious" => verify_calls[id] = 0
        /\ verify_calls[id] = 1 => create_outcome[id] = "spurious"
        /\ (Returned(id) /\ create_outcome[id] = "spurious") =>
             /\ verify_calls[id] = 1
             /\ verify_outcome[id] = "exists"
                  => submit_ret[id] = "true" /\ StatusOf(state_file, id) = "deploying"
             /\ verify_outcome[id] \in {"absent", "error", "raised"}
                  => submit_ret[id] = "false" /\ StatusOf(state_file, id) = "failed"

\* Both answers of the re-verification, and a create error that skipped it.
SpuriousReverifiedWitness ==
    \E a, b \in Ids :
        /\ create_outcome[a] = "spurious" /\ verify_outcome[a] = "exists"
        /\ submit_ret[a] = "true"
        /\ create_outcome[b] = "spurious" /\ verify_outcome[b] = "raised"
        /\ submit_ret[b] = "false"

\* ----------------------------------------------------------- deploy command
Accepted == {id \in Ids : submit_ret[id] = "true"}

\* C11: a resource group that cannot be created or a submit that returns
\* false never ends the batch: deploy leaves the loop only after every
\* scenario was processed, the records it collects are exactly those whose
\* submit returned true, and these are the records the monitor is given.
BatchIsolation ==
    /\ deployment_states = Keys(Accepted)
    /\ (mpc # "off" => input = Accepted /\ dpc \in {"post", "exit"})
    /\ (dpc \in {"submitted", "post", "exit"} =>
          /\ cur = MaxIds
          /\ \A id \in Ids :
               /\ rg_created[id] # "none"
               /\ rg_created[id] = "true" <=> Returned(id))
    /\ (dpc = "post" => mpc # "off" /\ Accepted # {})

\* The first scenario lost its resource group or its submit, a later one was
\* submitted and is the only record handed to the monitor.
BatchIsolationWitness ==
    \E a, b \in Ids :
        /\ a < b
        /\ rg_created[a] = "false" \/ submit_ret[a] = "false"
        /\ submit_ret[b] = "true"
        /\ mpc = "idle" /\ input = {b}

\* C12 (as claimed): every record the post-processing loop has handled,
\* Succeeded or not, was passed to auto_cleanup_deployment.
ConsultedForEveryRecord ==
    \A i \in 1..pp : deployment_states[i] \in Range(consulted)

\* Every scenario of the batch got its resource group, was submitted and
\* ended Succeeded.
AllSucceeded ==
    \A id \in Ids :
        /\ rg_created[id] = "true"
        /\ submit_ret[id] = "true"
        /\ id \in DOMAIN final_statuses
        /\ final_statuses[id] = "Succeeded"

\* C13 (as claimed): deploy exits with status zero only if every scenario of
\* the batch ended Succeeded.
ExitStatusAggregates ==
    (dpc = "exit" /\ exit_code = "0") => AllSucceeded

\* ------------------------------------------------------------- state store
StoredIds(sf) ==
    LET states == load_all_deployment_states(sf)
    IN  {states[i].deployment_id : i \in 1..Len(states)}

CopiesOf(sf, id) ==
    LET states == load_all_deployment_states(sf)
    IN  Cardinality({i \in 1..Len(states) : states[i].deployment_id = id})

\* C14: after save_deployment_state(r) the store holds exactly one record
\* with r's id, get_deployment_state(r.id) equals r in every field, saving r
\* again changes nothing, the other records are as they were read, and no
\* two stored records ever share an id.
UpsertSemantics ==
    /\ \A id \in Ids : CopiesOf(state_file, id) <= 1
    /\ last_op.op = "save_deployment_state" =>
          LET r == last_op.state
          IN  /\ CopiesOf(state_file, r.deployment_id) = 1
              /\ get_deployment_state(state_file, r.deployment_id) = r
              /\ save_deployment_state(state_file, r) = state_file
              /\ \A id \in Ids \ {r.deployment_id} :
                    get_deployment_state(state_file, id) =
                        get_deployment_state(last_op.before, id)

\* A record with an expiry replaced an older copy of the same id that sat in
\* front of another record.
UpsertSemanticsWitness ==
    /\ last_op.op = "save_deployment_state"
    /\ last_op.state.expires_at # None
    /\ last_op.state.cleanup_mode = "SCHEDULED"
    /\ Len(load_all_deployment_states(last_op.before)) = 2
    /\ Head(load_all_deployment_states(last_op.before)).deployment_id =
           last_op.state.deployment_id
    /\ Head(load_all_deployment_states(last_op.before)) # last_op.state
    /\ Len(load_all_deployment_states(state_file)) = 2

\* C15: while the file is readable the set of stored ids never shrinks, a
\* successful cleanup leaves its record in the store with status deleted,
\* and a deleted record stays in the store as deleted.
NeverRemoved ==
    [][ /\ StoredIds(state_file) \subseteq StoredIds(state_file')
        /\ (cleanup_calls' # cleanup_calls /\ last_cleanup'.success
              /\ ~last_cleanup'.dry_run)
             => StatusOf(state_file', last_cleanup'.deployment_id) = "deleted"
        /\ \A id \in Ids :
             StatusOf(state_file, id) = "deleted"
               => StatusOf(state_file', id) = "deleted" ]_vars

\* Both records of a batch are in the store, one deleted by an earlier
\* cleanup, the other by the latest one.
NeverRemovedWitness ==
    /\ Cardinality(StoredIds(state_file)) = 2
    /\ last_cleanup # NoCleanup /\ last_cleanup.success /\ last_cleanup.destroy
    /\ \E id \in Ids :
         /\ id # last_cleanup.deployment_id
         /\ StatusOf(state_file, id) = "deleted"
    /\ StatusOf(state_file, last_cleanup.deployment_id) = "deleted"

\* C16 (as claimed): when the process stops during a mutation the file holds
\* the whole collection from before the mutation or the whole one after it.
AtomicPersistence ==
    last_op.op = "stopped" => state_file \in {last_op.before, last_op.after}

\* C17 (as claimed): while the store file cannot be read or parsed, an
\* operation on the store ends in an error and leaves the file as it is.
ReadFailureIsFatal ==
    [][ (~state_file.ok /\ last_op' # last_op)
          => /\ state_file' = state_file
             /\ last_op'.outcome # "None" ]_vars

\* C18 (as claimed): update_deployment_status on an id the store does not
\* hold ends in a not-found error.
UpdateUnknownFails ==
    (last_op.op = "update_deployment_status" /\ ~last_op.found)
        => last_op.outcome = "NotFoundError"

\* --------------------------------------------------------------- lifecycle
Rank(st) ==
    CASE st = "pending" -> 0
      [] st = "deploying" -> 1
      [] st \in {"succeeded", "failed"} -> 2
      [] st = "deleted" -> 3

\* C19: over a deploy run and the cleanup commands after it, a stored record
\* stays stored and its status never moves backward in the order
\* pending, deploying, {succeeded, failed}, deleted.
MonotonicStatus ==
    [][ \A id \in Ids :
          StatusOf(state_file, id) # "absent"
            => /\ StatusOf(state_file', id) # "absent"
               /\ Rank(StatusOf(state_file', id)) >= Rank(StatusOf(state_file, id))
      ]_vars

\* A record that was pending, deploying and succeeded is deleted by a forced
\* cleanup command, next to a record that failed at submit.
MonotonicStatusWitness ==
    /\ dpc = "exit"
    /\ last_cleanup # NoCleanup /\ last_cleanup.force /\ last_cleanup.success
    /\ \E a, b \in Ids :
         /\ a \in DOMAIN final_statuses /\ final_statuses[a] = "Succeeded"
         /\ StatusOf(state_file, a) = "deleted"
         /\ submit_ret[b] = "false" /\ StatusOf(state_file, b) = "failed"

\* ----------------------------------------------------------- policy engine
\* C20 (as claimed): for a record whose cleanup_mode is MANUAL the decision
\* is never should_cleanup = true.
ManualNeverCleansUp ==
    (last_op.op = "should_cleanup_deployment"
        /\ last_op.deployment.cleanup_mode = "MANUAL")
      => ~decision.should_cleanup

\* C20 (amended): for a record whose cleanup_mode is MANUAL, a call without
\* a force_mode override returns should_cleanup = false without raising,
\* whatever the status, the expiry and the time.
ManualNeverCleansUpByItself ==
    (last_op.op = "should_cleanup_deployment"
        /\ last_op.deployment.cleanup_mode = "MANUAL"
        /\ last_op.force_mode = "None")
      => ~decision.should_cleanup /\ ~decision.raised

\* A failed MANUAL record whose expiry has passed is kept.
ManualNeverCleansUpByItselfWitness ==
    /\ last_op.op = "should_cleanup_deployment"
    /\ last_op.deployment.cleanup_mode = "MANUAL"
    /\ last_op.force_mode = "None"
    /\ last_op.deployment.status = "failed"
    /\ last_op.deployment.expires_at # None
    /\ last_op.deployment.expires_at[1] < last_op.t
    /\ ~decision.should_cleanup
    /\ decision.cleanup_mode = "MANUAL"

Decided == last_op.op = "should_cleanup_deployment"

\* C21 (as claimed): for a record whose cleanup_mode is IMMEDIATE and whose
\* status is not deleted the decision is should_cleanup = true.
ImmediateAlwaysCleansUp ==
    (Decided /\ last_op.deployment.cleanup_mode = "IMMEDIATE"
        /\ last_op.deployment.status # "deleted")
      => decision.should_cleanup

\* C21 (amended): for a record whose cleanup_mode is IMMEDIATE and whose
\* status is not deleted, a call without a force_mode override returns
\* should_cleanup = true without raising, for every status and expiry.
ImmediateCleansUpByItself ==
    (Decided /\ last_op.deployment.cleanup_mode = "IMMEDIATE"
        /\ last_op.force_mode = "None"
        /\ last_op.deployment.status # "deleted")
      => decision.should_cleanup /\ ~decision.raised

\* A failed IMMEDIATE record with no expiry is selected.
ImmediateCleansUpByItselfWitness ==
    /\ Decided
    /\ last_op.deployment.cleanup_mode = "IMMEDIATE"
    /\ last_op.force_mode = "None"
    /\ last_op.deployment.status = "failed"
    /\ last_op.deployment.expires_at = None
    /\ decision.should_cleanup
    /\ decision.reason = "Immediate cleanup mode"

\* C22 (as claimed): under the on-success policy the call returns a decision
\* for every DeploymentState, should_cleanup = false when no test has
\* passed, and for a pending record a reason saying the tests were not run.
OnSuccessDecides ==
    (Decided /\ decision.cleanup_mode = "ON_SUCCESS")
      => /\ ~decision.raised
         /\ ~decision.should_cleanup
         /\ last_op.deployment.status = "pending"
              => decision.reason = "Tests not run yet - waiting for test results"

\* C23 (as claimed): under the scheduled policy should_cleanup is true
\* exactly when expires_at is set and the reading is at or past it.
ScheduledIffExpired ==
    (Decided /\ decision.cleanup_mode = "SCHEDULED")
      => (decision.should_cleanup
            <=> /\ last_op.deployment.expires_at # None
                /\ last_op.t >= last_op.deployment.expires_at[1])

\* C23 (amended): under the scheduled policy, for a record that is not
\* deleted, should_cleanup is true exactly when expires_at is set and the
\* reading is at or past it: false one second before, true at it and after.
ScheduledIffExpiredUnlessDeleted ==
    (Decided /\ decision.cleanup_mode = "SCHEDULED"
        /\ last_op.deployment.status # "deleted")
      => /\ ~decision.raised
         /\ decision.should_cleanup
              <=> /\ last_op.deployment.expires_at # None
                  /\ last_op.t >= last_op.deployment.expires_at[1]

\* A succeeded record evaluated at the very second it expires, the policy
\* given as an override.
ScheduledIffExpiredUnlessDeletedWitness ==
    /\ Decided
    /\ last_op.force_mode = "SCHEDULED"
    /\ last_op.deployment.cleanup_mode = "MANUAL"
    /\ last_op.deployment.status = "succeeded"
    /\ last_op.deployment.expires_at = <<last_op.t>>
    /\ decision.should_cleanup

\* C24: a deleted record is never selected, whatever its own policy and
\* whatever override is given, expired or not; the call returns the
\* already-deleted decision without raising.
DeletedNeverSelected ==
    (Decided /\ last_op.deployment.status = "deleted")
      => /\ ~decision.should_cleanup
         /\ ~decision.raised
         /\ decision.reason = "Already deleted"

\* A deleted record past its expiry, evaluated under an IMMEDIATE override.
DeletedNeverSelectedWitness ==
    /\ Decided
    /\ last_op.deployment.status = "deleted"
    /\ last_op.force_mode = "IMMEDIATE"
    /\ last_op.deployment.cleanup_mode = "SCHEDULED"
    /\ last_op.deployment.expires_at # None
    /\ last_op.deployment.expires_at[1] < last_op.t
    /\ ~decision.should_cleanup

\* ------------------------------------------- policy of the stored records
\* A store left by earlier deploy runs, one record per id, each run with its
\* own --cleanup-mode; then decisions, status updates and cleanup commands.
PolicyStores ==
    {save_json(DumpAll([i \in 1..MaxIds |->
        [DeploymentState(i, st[i]) EXCEPT !.cleanup_mode = m[i]]])) :
        m \in [Ids -> CleanupMode], st \in [Ids -> {"succeeded", "failed"}]}

\* cleanup_manager.should_cleanup_deployment(deployment, force_mode) on a
\* record loaded from the store
DecideStored ==
    /\ \E id \in Ids, force_mode \in CleanupMode \cup {"None"} :
         LET deployment == get_deployment_state(state_file, id)
         IN  /\ deployment # NoState
             /\ decision' = should_cleanup_deployment(deployment, force_mode,
                                                      now)
             /\ last_op' = [op |-> "should_cleanup_deployment",
                            deployment |-> deployment,
                            force_mode |-> force_mode, t |-> now]
    /\ UNCHANGED <<state_file, now, cleanup_calls, destroy_log, last_cleanup,
                   cleanup_cmd, deployVars, monitorVars>>

InitPolicy ==
    /\ state_file \in PolicyStores
    /\ now = MonitorStart
    /\ IdleCleanup
    /\ dpc = "exit"
    /\ cur = 0
    /\ skip_validation = FALSE
    /\ deployment_states = <<>>
    /\ submit_ret = [id \in Ids |-> "none"]
    /\ validate_calls = [id \in Ids |-> 0]
    /\ create_calls = [id \in Ids |-> 0]
    /\ verify_calls = [id \in Ids |-> 0]
    /\ create_outcome = [id \in Ids |-> "none"]
    /\ verify_outcome = [id \in Ids |-> "none"]
    /\ cleanup = default_cleanup_mode
    /\ IdlePost
    /\ IdleMonitor

NextPolicy == DecideStored \/ CleanupCommand

SpecPolicy == InitPolicy /\ [][NextPolicy]_vars

\* A step that evaluates a decision returns the decision of the override
\* policy when one is given and of the record's own policy otherwise, and
\* leaves the store and the stored record as they were.
DecisionResolved ==
    (/\ last_op'.op = "should_cleanup_deployment"
     /\ cleanup_calls' = cleanup_calls
     /\ <<last_op, decision>>' # <<last_op, decision>>)
      => LET deployment == last_op'.deployment
             mode == IF last_op'.force_mode # "None"
                     THEN last_op'.force_mode
                     ELSE deployment.cleanup_mode
         IN  /\ decision'.cleanup_mode = mode
             /\ decision' = should_cleanup_deployment(
                    [deployment EXCEPT !.cleanup_mode = mode], "None",
                    last_op'.t)
             /\ state_file' = state_file
             /\ get_deployment_state(state_file',
                    deployment.deployment_id) = deployment

\* No step changes the cleanup_mode of a stored record or removes it.
CleanupModeKept ==
    \A id \in Ids :
        get_deployment_state(state_file, id) # NoState
          => /\ get_deployment_state(state_file', id) # NoState
             /\ get_deployment_state(state_file', id).cleanup_mode
                  = get_deployment_state(state_file, id).cleanup_mode

Digits == <<"0", "1", "2", "3", "4", "5", "6", "7", "8", "9">>
IsDigit(c) == \E i \in 1..Len(Digits) : Digits[i] = c
DigitValue(c) == (CHOOSE i \in 1..Len(Digits) : Digits[i] = c) - 1
Units == {"m", "h", "d", "w"}
AgeNow == 2025 * 525960

\* str.lower() on one character
Lower(c) ==
    CASE c = "M" -> "m"
      [] c = "H" -> "h"
      [] c = "D" -> "d"
      [] c = "W" -> "w"
      [] OTHER -> c

lower(s) == [i \in 1..Len(s) |-> Lower(s[i])]

\* int(match.group(1))
RECURSIVE int(_)
int(ds) ==
    IF ds = <<>> THEN 0
    ELSE int(SubSeq(ds, 1, Len(ds) - 1)) * 10 + DigitValue(ds[Len(ds)])

\* re.match(r'^(\d+)([mhdw])$', s): the groups, or None. `$` also matches
\* just before a newline that ends the string.
re_match(s) ==
    LET n == Len(s)
        body == IF n > 0 /\ s[n] = "\n" THEN SubSeq(s, 1, n - 1) ELSE s
        k == Len(body)
    IN  IF /\ k >= 2
           /\ \A i \in 1..(k - 1) : IsDigit(body[i])
           /\ body[k] \in Units
        THEN <<SubSeq(body, 1, k - 1), body[k]>>
        ELSE None

\* timedelta(minutes=value), hours, days, weeks: in minutes
timedelta(value, unit) ==
    CASE unit = "m" -> value
      [] unit = "h" -> value * 60
      [] unit = "d" -> value * 60 * 24
      [] unit = "w" -> value * 60 * 24 * 7

\* parse_age_duration(duration_str): None, or <<the duration>>
parse_age_duration(duration_str) ==
    LET match == re_match(lower(duration_str))
    IN  IF match = None THEN None
        ELSE <<timedelta(int(match[1]), match[2])>>

\* d.created_at > cutoff_time: keeps the newer records
NewerThan(created_at, cutoff_time) == created_at > cutoff_time
\* d.created_at < cutoff_time
OlderThan(created_at, cutoff_time) == created_at < cutoff_time

\* filter_deployments_by_age(deployments, older_than) at reading t: the
\* subtraction now - duration raises OverflowError when it falls before
\* datetime.min, and nothing catches it.
filter_deployments_by_age(deployments, older_than, t) ==
    LET duration == parse_age_duration(older_than)
    IN  IF duration = None
        THEN [raised |-> FALSE, result |-> <<>>]
        ELSE IF t - duration[1] < 0
        THEN [raised |-> TRUE, result |-> <<>>]
        ELSE [raised |-> FALSE,
              result |-> SelectSeq(deployments,
                           LAMBDA d : OlderThan(d.created_at, t - duration[1]))]

\* --older-than values: durations on both sides of the record ages, spelled
\* in several units, and strings the pattern rejects or barely accepts.
DurationStrings ==
    { <<"0", "m">>, <<"6", "0", "m">>, <<"6", "1", "m">>, <<"1", "h">>,
      <<"1", "H">>, <<"1", "d">>, <<"0", "1", "w">>,
      <<"2", "0", "0", "0", "0", "0", "w">>,
      <<"1", "h", "\n">>, <<"1", "h", "\n", "\n">>,
      <<>>, <<"h">>, <<"1">>, <<"1", "y">>, <<"-", "1", "h">>,
      <<"1", ".", "5", "h">>, <<" ", "1", "h">>, <<"1", "h", "m">> }

\* Ages of the stored records in minutes: an hour, a minute more, and a
\* minute more than a day.
Ages == {60, 61, 60 * 24 + 1}

AgeStores ==
    {save_json(DumpAll([i \in 1..MaxIds |->
        [DeploymentState(i, "succeeded") EXCEPT !.created_at = AgeNow - a[i],
                                                !.cleanup_mode = m[i]]])) :
        a \in [Ids -> Ages], m \in [Ids -> {"IMMEDIATE", "ON_SUCCESS"}]}

\* decisions of cleanup_deployments for the list ds: the records selected,
\* or a raise of should_cleanup_deployment
RECURSIVE Selected(_, _, _)
Selected(ds, force, t) ==
    IF ds = <<>> THEN [raised |-> FALSE, to_cleanup |-> <<>>]
    ELSE LET d == IF force
                  THEN Decision(ds[1], TRUE, "Force flag specified",
                                ds[1].cleanup_mode)
                  ELSE should_cleanup_deployment(ds[1], "None", t)
             rest == Selected(Tail(ds), force, t)
         IN  IF d.raised \/ rest.raised
             THEN [raised |-> TRUE, to_cleanup |-> <<>>]
             ELSE [raised |-> FALSE,
                   to_cleanup |-> IF d.should_cleanup
                                  THEN <<ds[1]>> \o rest.to_cleanup
                                  ELSE rest.to_cleanup]

\* CleanupSummary(total_candidates, cleaned_up, failed, skipped, results)
NoSummary == [returned |-> FALSE]
CleanupSummary(total_candidates, cleaned_up, failed, skipped, results) ==
    [returned |-> TRUE, total_candidates |-> total_candidates,
     cleaned_up |-> cleaned_up, failed |-> failed, skipped |-> skipped,
     results |-> results]

\* sum(1 for r in results if r.success), sum(1 for r in results if not r.success)
CountOf(results, success) ==
    Cardinality({i \in 1..Len(results) : results[i] = success})

\* skipped = len(deployments) - len(to_cleanup)
SkippedAll(total, selected) == total
Skipped(total, selected) == total - selected

\* The command as invoked: its selector and flags, nothing decided yet.
\* confirmed is history: what the operator answered at the prompt;
\* total_candidates and selected are len(deployments) and len(to_cleanup)
\* of the cleanup_deployments call.
Invoked(selector, older_than, dry_run, force) ==
    [pc |-> "start", selector |-> selector, older_than |-> older_than,
     dry_run |-> dry_run, force |-> force, confirmed |-> "not asked",
     to_cleanup |-> <<>>, total_candidates |-> 0, selected |-> 0,
     results |-> <<>>, summary |-> NoSummary, exit_code |-> "none"]

\* raise typer.Exit(code), or an exception that main turns into exit 1
Exit(cmd, code) == [cmd EXCEPT !.pc = "exit", !.exit_code = code]

\* cleanup_deployments has returned: with --all the command goes on to the
\* Key Vault resource group, otherwise it shows the summary and exits 1 if
\* summary.failed > 0.
Return(cmd, summary) ==
    IF cmd.selector = "all"
    THEN [cmd EXCEPT !.pc = "vault", !.summary = summary, !.to_cleanup = <<>>]
    ELSE [cmd EXCEPT !.pc = "exit", !.summary = summary, !.to_cleanup = <<>>,
                     !.exit_code = IF summary.failed > 0 THEN "1" ELSE "0"]

\* Confirm.ask is reached only without --force and without --dry-run
Proceed(cmd, confirm) == cmd.force \/ cmd.dry_run \/ confirm

\* cleanup_deployments(deployments, dry_run, force) up to its execution
\* loop: decide, plan, confirm.
cleanup_deployments(cmd, deployments, confirm, t) ==
    LET sel == Selected(deployments, cmd.force, t)
        total == Len(deployments)
        called == [cmd EXCEPT !.total_candidates = total]
        asked == [called EXCEPT !.confirmed =
                     IF cmd.force \/ cmd.dry_run THEN "not asked"
                     ELSE IF confirm THEN "yes" ELSE "no"]
    IN  IF deployments = <<>>
        THEN Return(called, CleanupSummary(0, 0, 0, 0, <<>>))
        ELSE IF sel.raised THEN Exit(called, "1")
        ELSE IF sel.to_cleanup = <<>>
        THEN Return(called, CleanupSummary(total, 0, 0, total, <<>>))
        ELSE IF ~Proceed(cmd, confirm)
        THEN Return(asked, CleanupSummary(total, 0, 0, total, <<>>))
        ELSE [asked EXCEPT !.pc = "run", !.to_cleanup = sel.to_cleanup,
                           !.selected = Len(sel.to_cleanup)]

\* neo4j-deploy cleanup --older-than S [--dry-run] [--force], up to the
\* confirmation prompt: load, filter, decide, confirm.
CleanupOlderThan ==
    /\ cleanup_cmd.pc = "off"
    /\ \E older_than \in DurationStrings, dry_run \in BOOLEAN,
          force \in BOOLEAN, confirm \in BOOLEAN :
         LET cmd == Invoked("older_than", older_than, dry_run, force)
             all_states == load_all_deployment_states(state_file)
             f == filter_deployments_by_age(all_states, older_than, now)
         IN  IF all_states = <<>>
             THEN /\ cleanup_cmd' = Exit(cmd, "0")
                  /\ UNCHANGED last_op
             ELSE /\ last_op' = [op |-> "filter_deployments_by_age",
                                 deployments |-> all_states,
                                 older_than |-> older_than, t |-> now,
                                 raised |-> f.raised, result |-> f.result]
                  /\ cleanup_cmd' =
                       IF f.raised THEN Exit(cmd, "1")
                       ELSE IF f.result = <<>> THEN Exit(cmd, "0")
                       ELSE cleanup_deployments(cmd, f.result, confirm, now)
    /\ UNCHANGED <<state_file, now, cleanup_calls, destroy_log, last_cleanup,
                   decision, deployVars, monitorVars>>

\* neo4j-deploy cleanup --deployment X: matching is the set of ids that X is
\* a prefix or a part of; exactly one stored record must match.
CleanupByDeployment ==
    /\ cleanup_cmd.pc = "off"
    /\ \E ids \in SUBSET Ids, dry_run \in BOOLEAN, force \in BOOLEAN,
          confirm \in BOOLEAN :
         LET cmd == Invoked("deployment", None, dry_run, force)
             all_states == load_all_deployment_states(state_file)
             matching == SelectSeq(all_states,
                                   LAMBDA d : d.deployment_id \in ids)
         IN  cleanup_cmd' =
               IF all_states = <<>> THEN Exit(cmd, "0")
               ELSE IF matching = <<>> THEN Exit(cmd, "1")
               ELSE IF Len(matching) > 1 THEN Exit(cmd, "1")
               ELSE cleanup_deployments(cmd, matching, confirm, now)
    /\ UNCHANGED <<state_file, now, cleanup_calls, destroy_log, last_cleanup,
                   opVars, deployVars, monitorVars>>

\* neo4j-deploy cleanup --all: every record that is not already deleted
CleanupAll ==
    /\ cleanup_cmd.pc = "off"
    /\ \E dry_run \in BOOLEAN, force \in BOOLEAN, confirm \in BOOLEAN :
         LET cmd == Invoked("all", None, dry_run, force)
             all_states == load_all_deployment_states(state_file)
             deployments_to_cleanup ==
                 SelectSeq(all_states, LAMBDA d : d.status # "deleted")
         IN  cleanup_cmd' =
               IF all_states = <<>> THEN Exit(cmd, "0")
               ELSE IF deployments_to_cleanup = <<>> THEN Exit(cmd, "0")
               ELSE cleanup_deployments(cmd, deployments_to_cleanup, confirm,
                                        now)
    /\ UNCHANGED <<state_file, now, cleanup_calls, destroy_log, last_cleanup,
                   opVars, deployVars, monitorVars>>

\* for deployment, decision in to_cleanup: one cleanup_deployment; after the
\* last one cleanup_deployments builds the summary and returns.
CleanupExecute ==
    /\ cleanup_cmd.pc = "run"
    /\ cleanup_cmd.to_cleanup # <<>>
    /\ cleanup_calls < MaxCleanupCalls
    /\ \E listing \in {{}, RGs}, deleted \in BOOLEAN :
         cleanup_deployment(Head(cleanup_cmd.to_cleanup), cleanup_cmd.dry_run,
                            cleanup_cmd.force, listing, deleted)
    /\ LET results == Append(cleanup_cmd.results, last_cleanup'.success)
           rest == Tail(cleanup_cmd.to_cleanup)
           cmd == [cleanup_cmd EXCEPT !.to_cleanup = rest,
                                      !.results = results]
           total == cleanup_cmd.total_candidates
       IN  cleanup_cmd' =
             IF rest # <<>> THEN cmd
             ELSE Return(cmd, CleanupSummary(total,
                                CountOf(results, TRUE), CountOf(results, FALSE),
                                Skipped(total, cleanup_cmd.selected), results))
    /\ UNCHANGED <<now, opVars, deployVars, monitorVars>>

\* vault_rg = f"{settings.resource_group_prefix}-keyvault": a name no
\* deployment's resource group has
vault_rg == MaxIds + 1

\* if all_deployments: az group show for the Key Vault resource group and,
\* if it answers, az group delete --yes --no-wait; skipped only by --dry-run.
CleanupKeyVault ==
    /\ cleanup_cmd.pc = "vault"
    /\ \E exists \in BOOLEAN :
         destroy_log' = IF ~cleanup_cmd.dry_run /\ exists
                        THEN Append(destroy_log, vault_rg)
                        ELSE destroy_log
    /\ cleanup_cmd' = Exit(cleanup_cmd,
                           IF cleanup_cmd.summary.failed > 0 THEN "1" ELSE "0")
    /\ UNCHANGED <<state_file, now, cleanup_calls, last_cleanup, opVars,
                   deployVars, monitorVars>>

InitAge ==
    /\ state_file \in AgeStores
    /\ now = AgeNow
    /\ IdleCleanup /\ IdleDeploy /\ IdleMonitor

NextAge == CleanupOlderThan \/ CleanupExecute

SpecAge == InitAge /\ [][NextAge]_vars

Filtered == last_op.op = "filter_deployments_by_age"

\* C26: for the same record list and reading, a parseable duration at least
\* as long as the one of the call returns, when it returns, a sub-list of
\* what the call returned: never a record the shorter duration left out.
MonotonicInDuration ==
    (Filtered /\ ~last_op.raised /\ parse_age_duration(last_op.older_than) # None)
      => \A longer \in DurationStrings :
           LET d1 == parse_age_duration(last_op.older_than)
               d2 == parse_age_duration(longer)
               r2 == filter_deployments_by_age(last_op.deployments, longer,
                                               last_op.t)
           IN  (d2 # None /\ d2[1] >= d1[1] /\ ~r2.raised)
                 => /\ Range(r2.result) \subseteq Range(last_op.result)
                    /\ Len(r2.result) <= Len(last_op.result)

\* The call with 60m returned both records, one of them 61 minutes old, and
\* 61m returns one record less.
MonotonicInDurationWitness ==
    /\ Filtered
    /\ last_op.older_than = <<"6", "0", "m">>
    /\ Len(last_op.result) = MaxIds
    /\ Len(filter_deployments_by_age(last_op.deployments, <<"6", "1", "m">>,
                                     last_op.t).result) = MaxIds - 1

\* <integer><unit> with unit in {m, h, d, w}, the unit in either case
MatchesPattern(s) ==
    /\ Len(s) >= 2
    /\ \A i \in 1..(Len(s) - 1) : IsDigit(s[i])
    /\ Lower(s[Len(s)]) \in Units

\* C27 (as claimed): for a string of the form <integer><unit> the call
\* returns exactly the records created strictly before now minus the
\* duration; for any other string it returns the empty list; it never
\* raises; and a command given a string not of that form destroys nothing.
ExactSelection ==
    /\ Filtered =>
         /\ ~last_op.raised
         /\ IF MatchesPattern(last_op.older_than)
            THEN last_op.result =
                   SelectSeq(last_op.deployments,
                     LAMBDA d : d.created_at
                                  < last_op.t - parse_age_duration(last_op.older_than)[1])
            ELSE last_op.result = <<>>
    /\ (cleanup_cmd.pc # "off" /\ ~MatchesPattern(cleanup_cmd.older_than))
         => destroy_log = <<>>

\* ------------------------------------------------- monitor, continued
\* C28: once a record is in the result map, the poll loop and the dashboard
\* issue no further status query for it, it stays out of the active set, its
\* map entry stays what it is, and the monitor does not write its stored
\* record again.
ResolvedIsFinal ==
    [][ \A id \in Ids :
          Resolved(id)
            => /\ polls'[id] = polls[id] /\ dash'[id] = dash[id]
               /\ id \notin active'
               /\ id \in polled_in_tick' => id \in polled_in_tick
               /\ Resolved(id)' /\ final_statuses'[id] = final_statuses[id]
               /\ resolved_tick'[id] = resolved_tick[id]
               /\ get_deployment_state(state_file', id)
                    = get_deployment_state(state_file, id) ]_vars

\* A record answered terminally on its first poll, while the live loop went
\* on to poll and redraw another record in two more ticks.
ResolvedIsFinalWitness ==
    /\ live
    /\ \E a, b \in input :
         /\ Resolved(a) /\ final_statuses[a] \in TerminalStatuses
         /\ resolved_tick[a] = 1 /\ polls[a] = 1
         /\ ticks >= 3 /\ polls[b] >= 3 /\ dash[b] > dash[a]

\* C29: a poll answered with anything but a terminal status (no answer
\* included) leaves the record active, the store and the result map as they
\* were; a record is polled at most once per tick, and a new tick starts
\* only after a sleep, so the n-th poll of a record follows n - 1 sleeps.
TransientRetriedPerTick ==
    /\ [][ \A id \in Ids :
             polls'[id] # polls[id]
               => /\ polls'[id] = polls[id] + 1
                  /\ id \notin polled_in_tick
                  /\ last_poll'.status \notin TerminalStatuses
                       => /\ id \in active'
                          /\ state_file' = state_file
                          /\ final_statuses' = final_statuses ]_vars
    /\ [](\A id \in Ids : polls[id] <= ticks /\ ticks <= sleeps + 1)

\* A record still deploying whose second poll, after a sleep, got no answer.
TransientRetriedPerTickWitness ==
    \E id \in input :
        /\ polls[id] >= 2 /\ sleeps >= 1
        /\ last_poll = [deployment_id |-> id, status |-> "None"]
        /\ id \in active /\ ~Resolved(id)
        /\ StatusOf(state_file, id) = "deploying"

\* C30 (as claimed): the two loops treat a record alike on the same clock:
\* under either loop a visited record is timed out exactly when the reading
\* at the top of the tick, the one the line-oriented loop uses, is past its
\* deadline, and is polled otherwise.
LoopsEquivalent ==
    [][ \A id \in Ids :
          Visiting(id)
            => /\ (NewlyResolved(id) /\ final_statuses'[id] = "Timeout")
                    <=> tick_start - start_times[id] > timeout_seconds
               /\ polls'[id] # polls[id]
                    <=> tick_start - start_times[id] <= timeout_seconds ]_vars

\* ------------------------------------------------------ cleanup command
\* A store left by earlier runs: per id a live or an already deleted record
\* under one of three policies, the first an hour and a minute old, the
\* second a day and a minute; then one cleanup command with any selector.
CommandStores ==
    {save_json(DumpAll([i \in 1..MaxIds |->
        [DeploymentState(i, st[i]) EXCEPT
            !.created_at = AgeNow - (IF i = 1 THEN 61 ELSE 60 * 24 + 1),
            !.cleanup_mode = m[i]]])) :
        st \in [Ids -> {"succeeded", "failed", "deleted"}],
        m \in [Ids -> {"IMMEDIATE", "ON_SUCCESS", "MANUAL"}]}

InitCommand ==
    /\ state_file \in CommandStores
    /\ now = AgeNow
    /\ IdleCleanup /\ IdleDeploy /\ IdleMonitor

NextCommand == CleanupByDeployment \/ CleanupAll \/ CleanupOlderThan
                  \/ CleanupExecute \/ CleanupKeyVault

SpecCommand == InitCommand /\ [][NextCommand]_vars

\* C31 (as claimed): once the operator has declined the prompt, the command
\* issues no destroy call for any resource group.
DeclineDestroysNothing ==
    (cleanup_cmd.pc # "off" /\ cleanup_cmd.confirmed = "no")
      => destroy_log = <<>>

\* C34 (as claimed): no destroy call is issued for the resource group of a
\* record whose stored status is deleted.
DeletedNeverDestroyed ==
    [][ \A id \in Ids :
          (/\ Len(destroy_log') > Len(destroy_log)
           /\ destroy_log'[Len(destroy_log')] = ResourceGroupName(id))
            => StatusOf(state_file, id) # "deleted" ]_vars

\* C37: a summary that cleanup_deployments returns counts every input
\* record once: total_candidates is the number of input records and the sum
\* of cleaned_up, failed and skipped; there is one result per record cleaned
\* up or failed; and when the operator declined or no record was selected,
\* everything is skipped.
SummaryAccounting ==
    (cleanup_cmd.pc # "off" /\ cleanup_cmd.summary.returned)
      => LET s == cleanup_cmd.summary
         IN  /\ s.total_candidates = cleanup_cmd.total_candidates
             /\ s.total_candidates = s.cleaned_up + s.failed + s.skipped
             /\ Len(s.results) = s.cleaned_up + s.failed
             /\ s.cleaned_up = CountOf(s.results, TRUE)
             /\ (cleanup_cmd.confirmed = "no" \/ cleanup_cmd.selected = 0)
                  => /\ s.cleaned_up = 0 /\ s.failed = 0
                     /\ s.skipped = s.total_candidates

\* Two candidates and the operator confirmed: one was skipped by its policy,
\* the cleanup of the other failed, and the command exits 1.
SummaryAccountingWitness ==
    /\ cleanup_cmd.pc = "exit"
    /\ cleanup_cmd.summary.returned
    /\ cleanup_cmd.confirmed = "yes"
    /\ cleanup_cmd.summary.total_candidates = MaxIds
    /\ cleanup_cmd.summary.failed = 1
    /\ cleanup_cmd.summary.skipped = 1
    /\ cleanup_cmd.exit_code = "1"

\* ------------------------------------------------- deploy flow, continued
\* C32 (as claimed): when deploy consults the policy for a record after
\* monitoring, the decision is the one for the record as the store holds it
\* at that moment; under the on-success policy a record the monitor wrote as
\* failed is refused and kept for debugging.
ConsultedOnPersistedStatus ==
    [][ consulted' # consulted
          => LET id == consulted'[Len(consulted')]
                 stored == get_deployment_state(state_file, id)
             IN  /\ decision' = should_cleanup_deployment(stored, "None", now)
                 /\ (stored.cleanup_mode = "ON_SUCCESS"
                        /\ stored.status = "failed")
                      => /\ ~decision'.raised /\ ~decision'.should_cleanup
                         /\ decision'.reason
                              = "Deployment failed - keeping for debugging"
      ]_vars

\* C35 (as claimed): a stored record has expires_at set exactly when its
\* cleanup_mode is SCHEDULED.
ScheduledHasExpiry ==
    \A id \in Ids :
        LET stored == get_deployment_state(state_file, id)
        IN  stored # NoState
              => (stored.cleanup_mode = "SCHEDULED" <=> stored.expires_at # None)

\* C33: a stored status turns deleted only in a cleanup_deployment call for
\* that record whose destroy call returned success; a dry run, a safety
\* refusal and a failed destroy leave the store as it was; a dry run issues
\* no destroy call and no registry query, a refusal no destroy call.
DeletedOnlyAfterDestroy ==
    [][ /\ \A id \in Ids :
             (/\ StatusOf(state_file', id) = "deleted"
              /\ StatusOf(state_file, id) # "deleted")
               => /\ cleanup_calls' = cleanup_calls + 1
                  /\ last_cleanup'.deployment_id = id
                  /\ ~last_cleanup'.dry_run
                  /\ last_cleanup'.destroy /\ last_cleanup'.success
                  /\ destroy_log' = Append(destroy_log, ResourceGroupName(id))
        /\ cleanup_calls' # cleanup_calls
             => /\ last_cleanup'.dry_run
                     => /\ state_file' = state_file
                        /\ destroy_log' = destroy_log
                        /\ ~last_cleanup'.listed /\ ~last_cleanup'.destroy
                /\ ~last_cleanup'.success => state_file' = state_file
                /\ last_cleanup'.error_message = RefusalText
                     => destroy_log' = destroy_log /\ ~last_cleanup'.destroy
      ]_vars

\* One record was destroyed and marked deleted by the automatic cleanup, and
\* a later dry run left store and log alone.
DeletedOnlyAfterDestroyWitness ==
    /\ cleanup_calls = 2
    /\ last_cleanup.dry_run /\ last_cleanup.success
    /\ Len(destroy_log) = 1
    /\ \E id \in Ids : /\ StatusOf(state_file, id) = "deleted"
                        /\ destroy_log = <<ResourceGroupName(id)>>
                        /\ id \in Range(consulted)

\* ------------------------------------------------ state store, continued
StatusUpdated ==
    /\ last_op.op = "update_deployment_status"
    /\ last_op.found

OtherRecords(states, id) == SelectSeq(states, LAMBDA r : r.deployment_id # id)

\* C38: update_deployment_status(id, s) on a known id changes only the
\* status field of the record with that id: its other fields, and every
\* other record of the store, are after the call what they were before it.
OnlyStatusChanges ==
    [][ (/\ last_op'.op = "update_deployment_status"
         /\ last_op'.found
         /\ last_op'.before = state_file
         /\ <<state_file, last_op>>' # <<state_file, last_op>>)
          => LET id == last_op'.deployment_id
                 before == load_all_deployment_states(state_file)
                 after == load_all_deployment_states(state_file')
             IN  /\ state_file'.ok
                 /\ get_deployment_state(state_file', id)
                      = [get_deployment_state(state_file, id)
                           EXCEPT !.status = last_op'.status]
                 /\ OtherRecords(after, id) = OtherRecords(before, id)
                 /\ Len(after) = Len(before)
                 /\ \A other \in Ids \ {id} :
                      get_deployment_state(state_file', other)
                        = get_deployment_state(state_file, other)
      ]_vars

\* The call changed the status of a record that carries an expiry, in a
\* store that holds another record as well.
OnlyStatusChangesWitness ==
    /\ StatusUpdated
    /\ LET id == last_op.deployment_id
           old == get_deployment_state(last_op.before, id)
       IN  /\ old.status # last_op.status
           /\ old.expires_at # None
           /\ old.cleanup_mode = "SCHEDULED"
           /\ StatusOf(state_file, id) = last_op.status
           /\ \E other \in Ids \ {id} :
                get_deployment_state(last_op.before, other) # NoState

\* ---------------------------------------------------- monitor, continued
\* C36: from the entry of monitor_deployments on, at every tick boundary the
\* active set and the keys of the result map are disjoint and together are
\* exactly the input ids; on return the result map has one entry for every
\* input id and none for any other id.
ActiveAndResolvedPartition ==
    /\ mpc # "idle"
         => /\ active \cap DOMAIN final_statuses = {}
            /\ active \cup DOMAIN final_statuses = input
    /\ mpc = "done"
         => /\ active = {}
            /\ DOMAIN final_statuses = input
            /\ Cardinality(DOMAIN final_statuses) = Cardinality(input)

\* The call returned after resolving its deployments in different ticks, so
\* that a tick ended with one id active and another in the result map.
ActiveAndResolvedPartitionWitness ==
    /\ mpc = "done"
    /\ input = Ids
    /\ \E a \in Ids, b \in Ids : resolved_tick[a] < resolved_tick[b]
    /\ DOMAIN final_statuses = Ids
====
